---- MODULE Spec2Model ----
(***************************************************************************)
(* Document ingestion pipeline of DevDocs AI: the api_documents and        *)
(* api_chunks tables, the upload endpoint with its immediate processing,   *)
(* the Kafka worker, the manual /process endpoint, the /status endpoint    *)
(* and the ProcessingStatus component of the frontend.                     *)
(*                                                                         *)
(* The Python backend is present in the repository only through the        *)
(* listings of api.py and embedding_worker.py in the guides; the model     *)
(* follows those listings, one action per database write of a run.         *)
(***************************************************************************)
EXTENDS Integers, FiniteSets, Sequences, TLC

\* ---------------------------------------------------------------- bounds
MaxDocs == 1
MaxAttempts == 2
MaxChunks == 2

\* Vector search: cosine distances are multiples of 1/MaxScore between 0 and
\* 1, and a searched table holds at most MaxRows rows.
MaxScore == 2
MaxRows == 2

\* Session storage: a stored session expires MaxSeconds seconds after the
\* epoch of the browser clock.
MaxSeconds == 2

\* ChatInterface: at most MaxSends questions are sent in one behaviour.
MaxSends == 2

\* DocumentUpload: at most MaxFiles files are dropped at once.
MaxFiles == 3

Docs == 1..MaxDocs
\* The documents of a searched table: one more than Docs, so that a search
\* always has a second document to leave out.
SearchDocs == 1..(MaxDocs + 1)
Attempts == 1..MaxAttempts

\* ------------------------------------------------------------- constants
\* api_documents.status values written by the backend, plus "none" for a
\* document id that has no row.
StoredStatuses == {"none", "uploaded", "processing", "ready", "failed", "deleted"}

\* The status strings the frontend can hold for a document.
ShownStatuses == {"ready", "processing", "failed", "unknown"}

\* Error kinds of one processing run; the text stored in api_documents.error.
ErrorKinds == {"StorageError", "ExtractionError", "EmbeddingError", "VectorStoreError"}

\* The dimensions the schema copies and migrations declare for a vector.
OpenAIDimension == 1536
HuggingFaceDimension == 384

\* No answer has been generated.
NoAnswer == [made |-> FALSE, llm |-> "absent", text |-> "none", degraded |-> FALSE,
             raised |-> FALSE, sources |-> 0, llm_called |-> FALSE,
             summarizer_called |-> FALSE]

\* self.llm at the time of a question: not initialised, initialised with a
\* call that raises, initialised with a call that returns.
LlmStates == {"absent", "fails", "succeeds"}

\* ------------------------------------------------------- LLM initialisation
\* apis_to_try, in the order of the list.
ProvidersAnthropicFirst == <<"Anthropic", "OpenAI", "Google Gemini", "Ollama">>

Providers == <<"OpenAI", "Anthropic", "Google Gemini", "Ollama">>

\* What init_func() of a provider does: it raises, it returns a value that
\* is not truthy, or it returns an LLM.
InitOutcomes == {"raises", "returns None", "returns llm"}

\* RAGService before initialize_llm_with_fallback is called.
NoLlmInit == [pc |-> "idle", outcomes |-> <<>>, tried |-> <<>>, llm |-> "unset"]

\* localStorage.getItem returns null: nothing is stored under the key.
NoItem == <<>>

\* No call of sessionStorage has been made.
NoStorageCall == [op |-> "none", before |-> NoItem, after |-> NoItem, now |-> 0,
                  session |-> "null", valid |-> FALSE]

\* ChatInterface before it is mounted.  selectedDocument and documents are its
\* props (0 stands for null), the other fields its state; selectedDocId 0
\* stands for ''.  in_flight counts the ask requests of the mounted instance
\* that have not settled, sent the requests made by all instances.
NoChat == [mounted |-> FALSE, selectedDocument |-> 0, documents |-> {},
           selectedDocId |-> 0, inputValue |-> "", isLoading |-> FALSE,
           messages |-> <<>>, in_flight |-> 0, sent |-> 0]

\* No handleDelete call is in progress.  row is the outcome of the delete of
\* the api_documents row, file the state of the stored file ("none" when the
\* document has no storage_path), before the chunk rows of the document when
\* the call began, callback whether onDocumentDelete was called.
NoDeletion == [pc |-> "idle", doc |-> 0, row |-> "present", file |-> "none",
               before |-> {}, warned |-> 0, callback |-> FALSE, toast |-> "none"]

\* No onDrop call is in progress.  posted are the positions in acceptedFiles
\* of the files sent to /api/upload, failed the position of the file whose
\* response was not ok (0: none), callback whether onUploadComplete was called
\* by the last call.
NoDrop == [pc |-> "idle", acceptedFiles |-> <<>>, posted |-> <<>>, failed |-> 0,
           uploading |-> FALSE, uploadProgress |-> 0, callback |-> FALSE,
           toast |-> "none"]

\* Home before it is mounted: no auth listener.
NoSubscription == [active |-> FALSE, isClient |-> FALSE]

\* No match_documents call has been made.
NoCall == [threshold |-> 0, count |-> 0, filter |-> 0, made |-> FALSE]

\* DocumentList before any answer has arrived: no document polled, no entry.
NoEntry == [doc |-> 0, status |-> "undefined", chunk_count |-> 0]

VARIABLES
    status,            \* api_documents.status per document id
    error,             \* api_documents.error per document id ("NULL" or text)
    chunk_count,       \* api_documents.chunk_count per document id
    content,           \* number of chunks the splitter yields for the stored file
    api_chunks,        \* rows of the api_chunks table
    kafka,             \* pending "api-doc-upload" events per document id
    attempts,          \* the processing runs started so far
    documentStatuses,  \* DocumentList state: the entry written last, with its key
    rendered,          \* what ProcessingStatus shows for that entry
    search_call,       \* arguments of the last match_documents call
    search_result,     \* rows that call returned, in order
    answer,            \* the last response of the answer generator
    embed_tries,       \* embedding service calls made for the current chunk, per run
    last_delete,       \* document id of the last delete by doc_id on api_chunks
    isClient,          \* Home: the isClient state
    subscription,      \* Home: the onAuthStateChange callback and what it captured
    localStorage,      \* the text of the 'devdocs-session' item (NoItem when absent)
    session,           \* Home: the session state
    embedding_dim,     \* declared dimension of api_chunks.embedding
    match_dim,         \* declared dimension of match_documents' query_embedding
    llm_init,          \* RAGService: the progress and result of the LLM initialisation
    storage_call,      \* the last call of sessionStorage and what it returned
    chat,              \* ChatInterface: its props, its state and its ask request
    deletion,          \* DocumentList: the handleDelete call in progress
    drop               \* DocumentUpload: the onDrop call in progress

\* What only the vector search writes.
searchVars == <<search_call, search_result>>

\* What only Home and its session storage write.
authVars == <<isClient, subscription, localStorage, session>>

\* What only the migrations write.
schemaVars == <<embedding_dim, match_dim>>

\* What only the LLM initialisation, the session storage calls and the
\* components ChatInterface, DocumentList.handleDelete and DocumentUpload write.
uiVars == <<llm_init, storage_call, chat, deletion, drop>>

\* What neither the ingestion nor the status polling writes.
sideVars == <<answer, embed_tries, last_delete, authVars, schemaVars, uiVars>>

vars == <<status, error, chunk_count, content, api_chunks, kafka, attempts,
          documentStatuses, rendered, search_call, search_result, answer,
          embed_tries, last_delete, isClient, subscription, localStorage, session,
          embedding_dim, match_dim, llm_init, storage_call, chat, deletion, drop>>

\* The first values of what the ingestion never writes: nothing answered,
\* no embedding call made, Home not mounted, nothing stored in the browser,
\* and the schema of the setup script.
SideInit ==
    /\ answer = NoAnswer
    /\ embed_tries = [a \in Attempts |-> 0]
    /\ last_delete = 0
    /\ isClient = FALSE
    /\ subscription = NoSubscription
    /\ localStorage = NoItem
    /\ session = "null"
    /\ embedding_dim = OpenAIDimension
    /\ match_dim = OpenAIDimension
    /\ llm_init = NoLlmInit
    /\ storage_call = NoStorageCall
    /\ chat = NoChat
    /\ deletion = NoDeletion
    /\ drop = NoDrop

\* --------------------------------------------------------------- helpers
\* A run: its document, its position in process_document_immediately, the
\* loop index, the runs of the same document it has overlapped with, and
\* whether the document was already ready when the trigger arrived.
IdleAttempt == [doc |-> 0, pc |-> "idle", i |-> 0, rivals |-> {}, late |-> FALSE]

\* Whether api_documents holds a row for document id d ("none": the id has
\* not been generated yet, "deleted": its row has been deleted).
Exists(d) == status[d] \notin {"none", "deleted"}

\* api_chunks.doc_id REFERENCES api_documents(id): whether a chunk row of
\* document d can be inserted.
DocIdUnchecked(d) == TRUE

DocIdReferenced(d) == Exists(d)

Running(a) == attempts[a].pc \notin {"idle", "done", "cancelled"}

RunningOn(d) == {a \in Attempts : Running(a) /\ attempts[a].doc = d}

\* Rows of api_chunks that belong to document d.
ChunksOf(d) == {r \in api_chunks : r.doc_id = d}

\* SELECT COUNT(*) FROM api_chunks WHERE doc_id = d
ChunkCount(d) == Cardinality(ChunksOf(d))

\* The first unused run slot, 0 when the bound is exhausted.
FreeAttempt ==
    IF \E a \in Attempts : attempts[a].pc = "idle"
    THEN CHOOSE a \in Attempts :
            attempts[a].pc = "idle" /\ \A b \in Attempts : b < a => attempts[b].pc # "idle"
    ELSE 0

\* The attempts table after a run of document d is started by a trigger:
\* the run begins at the download, whatever else is running on d.
StartAttempt(a, d) ==
    [b \in Attempts |->
        IF b = a
        THEN [doc |-> d, pc |-> "download", i |-> 0, rivals |-> RunningOn(d),
              late |-> status[d] = "ready"]
        ELSE IF b \in RunningOn(d)
             THEN [attempts[b] EXCEPT !.rivals = @ \cup {a}]
             ELSE attempts[b]]

\* ------------------------------------------------------- /status endpoint
GetStatusFailedFirst(d) ==
    [status |-> IF status[d] = "failed" THEN "failed"
                ELSE IF ChunkCount(d) > 0 THEN "ready"
                ELSE "processing",
     chunk_count |-> ChunkCount(d)]

GetStatus(d) ==
    [status |-> IF ChunkCount(d) > 0 THEN "ready"
                ELSE IF status[d] = "failed" THEN "failed"
                ELSE "processing",
     chunk_count |-> ChunkCount(d)]

\* --------------------------------------------------- ProcessingStatus.tsx
StatusProp(entry) == IF entry.status = "undefined" THEN "unknown" ELSE entry.status

ChunkCountProp(entry) == entry.chunk_count

ProcessingStatus(st, chunkCount) ==
    IF st = "ready" \/ chunkCount > 0 THEN "Ready"
    ELSE IF st = "failed" THEN "Failed"
    ELSE IF st = "processing" THEN "Processing..."
    ELSE IF st = "loading" THEN "Loading..."
    ELSE "Checking status..."

Render(entry) == ProcessingStatus(StatusProp(entry), ChunkCountProp(entry))

\* The branches of ProcessingStatus that render the Retry button.
RetryOffered(st, chunkCount) ==
    ~(st = "ready" \/ chunkCount > 0) /\ (st = "failed" \/ st = "processing")

\* ------------------------------------------------------------------ Init
Init ==
    /\ status = [d \in Docs |-> "none"]
    /\ error = [d \in Docs |-> "NULL"]
    /\ chunk_count = [d \in Docs |-> 0]
    /\ content = [d \in Docs |-> 0]
    /\ api_chunks = {}
    /\ kafka = [d \in Docs |-> 0]
    /\ attempts = [a \in Attempts |-> IdleAttempt]
    /\ documentStatuses = NoEntry
    /\ rendered = Render(NoEntry)
    /\ search_call = NoCall
    /\ search_result = <<>>
    /\ SideInit

\* --------------------------------------------------------------- triggers
\* POST /upload: generate the next document id, store the file, insert the
\* api_documents row with status "processing", emit the Kafka event and
\* process the document immediately.  An event that no worker ever consumes
\* stands for the deployments without Kafka.
Upload(d, n) ==
    /\ status[d] = "none"
    /\ \A e \in Docs : e < d => status[e] # "none"
    /\ FreeAttempt # 0
    /\ status' = [status EXCEPT ![d] = "processing"]
    /\ content' = [content EXCEPT ![d] = n]
    /\ kafka' = [kafka EXCEPT ![d] = 1]
    /\ attempts' = StartAttempt(FreeAttempt, d)
    /\ UNCHANGED <<error, api_chunks, documentStatuses, rendered>>
    /\ UNCHANGED <<chunk_count, searchVars, sideVars>>

\* embedding_worker.py: take one event off the topic and process the document.
WorkerConsume(d) ==
    /\ kafka[d] > 0
    /\ status[d] # "none"
    /\ FreeAttempt # 0
    /\ kafka' = [kafka EXCEPT ![d] = @ - 1]
    /\ attempts' = StartAttempt(FreeAttempt, d)
    /\ UNCHANGED <<status, error, content, api_chunks, documentStatuses, rendered>>
    /\ UNCHANGED <<chunk_count, searchVars, sideVars>>

\* POST /process/{doc_id}: the Retry button or a direct call.
ManualProcess(d) ==
    /\ Exists(d)
    /\ FreeAttempt # 0
    /\ attempts' = StartAttempt(FreeAttempt, d)
    /\ UNCHANGED <<status, error, content, api_chunks, kafka, documentStatuses, rendered>>
    /\ UNCHANGED <<chunk_count, searchVars, sideVars>>

\* ------------------------------------------------- one run of a document
\* A run touches the database only when it inserts a chunk row and when it
\* updates the document row; the download, the loader, the splitter and the
\* embedding call work on the run's own data.  Each action below is one
\* database write together with the local statements that lead to it.

\* What a run that raises leaves on the api_documents row.
MarkFailedSilently(d) == status

MarkFailed(d) == IF Exists(d) THEN [status EXCEPT ![d] = "failed"] ELSE status

Fail(a, kind) ==
    /\ status' = MarkFailed(attempts[a].doc)
    /\ error' = IF Exists(attempts[a].doc)
                THEN [error EXCEPT ![attempts[a].doc] = kind]
                ELSE error
    /\ attempts' = [attempts EXCEPT ![a].pc = "done", ![a].i = 0]
    /\ UNCHANGED <<content, api_chunks, kafka, documentStatuses, rendered>>
    /\ UNCHANGED <<chunk_count, searchVars, sideVars>>

\* 1. supabase.storage.from_("api-docs").download(storage_path) raises.
DownloadFails(a) == attempts[a].pc = "download" /\ Fail(a, "StorageError")

\* 2. loader.load_openapi / load_pdf / load_markdown raises.
LoadFails(a) == attempts[a].pc = "download" /\ Fail(a, "ExtractionError")

\* 1-3. download, load and chunks = splitter.split_documents(documents) all
\* succeed; the for loop over an empty list runs no iteration and falls
\* through to the status update.
Split(a) ==
    /\ attempts[a].pc = "download"
    /\ attempts' = [attempts EXCEPT
          ![a].pc = IF content[attempts[a].doc] = 0 THEN "update" ELSE "embed"]
    /\ UNCHANGED <<status, error, content, api_chunks, kafka, documentStatuses, rendered>>
    /\ UNCHANGED <<chunk_count, searchVars, sideVars>>

\* 4. embedding = rag_service.get_embedding(chunk["text"]) raises.
EmbedFails(a) == attempts[a].pc = "embed" /\ Fail(a, "EmbeddingError")

\* 4. supabase.table("api_chunks").insert(chunk_data) raises.
InsertFails(a) == attempts[a].pc = "embed" /\ Fail(a, "VectorStoreError")

\* 4. One iteration of the loop: embed the chunk and insert its row.  A row
\* is identified by the run that wrote it and its position in the split
\* sequence; the insert is refused when the document row is gone.
Insert(a) ==
    /\ attempts[a].pc = "embed"
    /\ DocIdReferenced(attempts[a].doc)
    /\ api_chunks' = api_chunks \cup
          {[doc_id |-> attempts[a].doc, attempt |-> a, chunk_index |-> attempts[a].i]}
    /\ attempts' = [attempts EXCEPT
          ![a].i = IF attempts[a].i + 1 = content[attempts[a].doc] THEN 0 ELSE @ + 1,
          ![a].pc = IF attempts[a].i + 1 = content[attempts[a].doc] THEN "update" ELSE "embed"]
    /\ UNCHANGED <<status, error, content, kafka, documentStatuses, rendered>>
    /\ UNCHANGED <<chunk_count, searchVars, sideVars>>

\* ----------------------------------------- initialize_llm_with_fallback
\* RAGService.__init__ calls initialize_llm_with_fallback in an environment
\* that decides what each provider's init function does.
InitializeLlm(outcomes) ==
    /\ llm_init.pc = "idle"
    /\ llm_init' = [pc |-> "trying", outcomes |-> outcomes, tried |-> <<>>, llm |-> "unset"]
    /\ UNCHANGED <<status, error, chunk_count, content, api_chunks, kafka, attempts,
                   documentStatuses, rendered, searchVars>>
    /\ UNCHANGED <<answer, embed_tries, last_delete, authVars, schemaVars>>
    /\ UNCHANGED <<storage_call, chat, deletion, drop>>

\* One iteration of the loop over apis_to_try: init_func() is called; a
\* truthy result is returned, an exception or a falsy result continues with
\* the next provider.  After the last provider the function returns None.
TryProvider ==
    /\ llm_init.pc = "trying"
    /\ LET i == Len(llm_init.tried) + 1
           initialised == llm_init.outcomes[i] = "returns llm"
       IN llm_init' = [llm_init EXCEPT
              !.tried = Append(@, Providers[i]),
              !.llm = IF initialised THEN Providers[i]
                      ELSE IF i = Len(Providers) THEN "None" ELSE @,
              !.pc = IF initialised \/ i = Len(Providers) THEN "done" ELSE "trying"]
    /\ UNCHANGED <<status, error, chunk_count, content, api_chunks, kafka, attempts,
                   documentStatuses, rendered, searchVars>>
    /\ UNCHANGED <<answer, embed_tries, last_delete, authVars, schemaVars>>
    /\ UNCHANGED <<storage_call, chat, deletion, drop>>

\* ------------------------------------------------------------ ChatInterface
\* What the user can have typed: nothing, white space, a question.
InputValues == {"", " ", "q"}

\* inputValue.trim()
Trim(v) == IF v = " " THEN "" ELSE v

\* documents.slice(0, 4): the 'Select a Document' screen lists four documents.
ListedChoices == 4

\* Which of its three screens ChatInterface renders.
View(c) ==
    IF c.selectedDocument = 0 /\ Cardinality(c.documents) > 0 THEN "select"
    ELSE IF Cardinality(c.documents) = 0 THEN "empty"
    ELSE "chat"

\* disabled={!selectedDocId || isLoading} of the textarea.
TextareaDisabledWithoutDocument(c) == c.selectedDocId = 0

TextareaDisabled(c) == c.selectedDocId = 0 \/ c.isLoading

\* disabled={!inputValue.trim() || !selectedDocId || isLoading} of the button.
SendDisabled(c) == Trim(c.inputValue) = "" \/ c.selectedDocId = 0 \/ c.isLoading

\* handleSendMessage up to its await: the state it leaves.
handleSendMessage(c) ==
    IF Trim(c.inputValue) = "" \/ c.selectedDocId = 0 THEN c
    ELSE [c EXCEPT !.messages = Append(@, "user"),
                   !.inputValue = "",
                   !.isLoading = TRUE,
                   !.in_flight = @ + 1,
                   !.sent = @ + 1]

\* What no action of ChatInterface writes.
ChatFrame ==
    /\ UNCHANGED <<status, error, chunk_count, content, api_chunks, kafka, attempts,
                   documentStatuses, rendered, searchVars>>
    /\ UNCHANGED <<answer, embed_tries, last_delete, authVars, schemaVars>>
    /\ UNCHANGED <<llm_init, storage_call, deletion, drop>>

\* Dashboard shows the chat tab: ChatInterface is mounted with the props of
\* the moment, and its effect copies selectedDocument.id to selectedDocId.
MountChat(selectedDocument, documents) ==
    /\ ~chat.mounted
    /\ selectedDocument \in documents \cup {0}
    /\ chat' = [NoChat EXCEPT !.mounted = TRUE,
                              !.selectedDocument = selectedDocument,
                              !.documents = documents,
                              !.selectedDocId = selectedDocument,
                              !.sent = chat.sent]
    /\ ChatFrame

\* Dashboard shows another tab: the component and its state are dropped; a
\* request of the dropped instance settles without an instance to update.
UnmountChat ==
    /\ chat.mounted
    /\ chat' = [NoChat EXCEPT !.sent = chat.sent]
    /\ ChatFrame

\* onClick of a button of the 'Select a Document' screen.
ChooseDocument(d) ==
    /\ chat.mounted
    /\ View(chat) = "select"
    /\ d \in chat.documents
    /\ Cardinality({e \in chat.documents : e < d}) < ListedChoices
    /\ chat' = [chat EXCEPT !.selectedDocId = d]
    /\ ChatFrame

\* onChange of the select element of the chat view; 0 is 'Select Document'.
SelectDocument(d) ==
    /\ chat.mounted
    /\ View(chat) = "chat"
    /\ d \in chat.documents \cup {0}
    /\ chat' = [chat EXCEPT !.selectedDocId = d]
    /\ ChatFrame

\* onChange of the textarea.
TypeInput(v) ==
    /\ chat.mounted
    /\ View(chat) = "chat"
    /\ ~TextareaDisabled(chat)
    /\ chat' = [chat EXCEPT !.inputValue = v]
    /\ ChatFrame

\* Enter in the textarea: handleKeyPress calls handleSendMessage.
PressEnter ==
    /\ chat.mounted
    /\ View(chat) = "chat"
    /\ ~TextareaDisabled(chat)
    /\ chat.sent < MaxSends
    /\ chat' = handleSendMessage(chat)
    /\ ChatFrame

\* A click on the send button.
ClickSend ==
    /\ chat.mounted
    /\ View(chat) = "chat"
    /\ ~SendDisabled(chat)
    /\ chat.sent < MaxSends
    /\ chat' = handleSendMessage(chat)
    /\ ChatFrame

\* api.askQuestion resolves (reply "assistant") or rejects (reply "error"):
\* the reply is appended and the finally block resets isLoading.
AskSettles(reply) ==
    /\ chat.mounted
    /\ chat.in_flight > 0
    /\ chat' = [chat EXCEPT !.messages = Append(@, reply),
                            !.isLoading = FALSE,
                            !.in_flight = @ - 1]
    /\ ChatFrame

\* -------------------------------------------------------------- migrations
\* embedding_dim is the n of api_chunks.embedding VECTOR(n), match_dim the n
\* of the query_embedding VECTOR(n) parameter of match_documents.  Every
\* stored row has an embedding of the column's dimension.

\* ALTER TABLE api_chunks ALTER COLUMN embedding TYPE VECTOR(dim) succeeds on
\* an empty table and on a column that has the dimension already; the cast
\* of a stored vector of another dimension raises.
AlterSucceeds(dim) == api_chunks = {} \/ embedding_dim = dim

\* WHERE status IN ('processed', 'failed')
ReprocessedStatuses == {"processed", "failed"}

\* 003_complete_setup.sql: the ALTER runs in a block that swallows its
\* failure, then match_documents is replaced by the VECTOR(384) one.
CompleteSetup ==
    /\ embedding_dim' = IF AlterSucceeds(HuggingFaceDimension)
                        THEN HuggingFaceDimension ELSE embedding_dim
    /\ match_dim' = HuggingFaceDimension
    /\ UNCHANGED <<status, error, chunk_count, content, api_chunks, kafka, attempts,
                   documentStatuses, rendered, searchVars>>
    /\ UNCHANGED <<answer, embed_tries, last_delete, authVars, uiVars>>

\* 008_fix_match_function.sql: match_documents(VECTOR(384), ...) is dropped
\* and match_documents(VECTOR(1536), ...) created; the table is not touched.
FixMatchFunction ==
    /\ match_dim' = OpenAIDimension
    /\ UNCHANGED embedding_dim
    /\ UNCHANGED <<status, error, chunk_count, content, api_chunks, kafka, attempts,
                   documentStatuses, rendered, searchVars>>
    /\ UNCHANGED <<answer, embed_tries, last_delete, authVars, uiVars>>

\* DROP TABLE IF EXISTS api_chunks CASCADE, CREATE TABLE api_chunks with
\* embedding VECTOR(dim), then the UPDATE of api_documents that resets the
\* rows its WHERE clause selects.  Runs in progress are not stopped.
RecreateChunks(dim) ==
    /\ api_chunks' = {}
    /\ embedding_dim' = dim
    /\ status' = [d \in Docs |->
          IF status[d] \in ReprocessedStatuses THEN "uploaded" ELSE status[d]]
    /\ chunk_count' = [d \in Docs |->
          IF status[d] \in ReprocessedStatuses THEN 0 ELSE chunk_count[d]]
    /\ error' = [d \in Docs |->
          IF status[d] \in ReprocessedStatuses THEN "NULL" ELSE error[d]]
    /\ UNCHANGED <<content, kafka, attempts, documentStatuses, rendered, searchVars>>
    /\ UNCHANGED <<answer, embed_tries, last_delete, authVars, uiVars>>

\* "Revert to OpenAI": the table is recreated with VECTOR(1536) and
\* match_documents replaced by the VECTOR(1536) one.
RevertToOpenAI ==
    /\ RecreateChunks(OpenAIDimension)
    /\ match_dim' = OpenAIDimension

\* "Fix vector dimensions": the table is recreated with VECTOR(384); the
\* script creates no function.
FixVectorDimensions ==
    /\ RecreateChunks(HuggingFaceDimension)
    /\ UNCHANGED match_dim

\* 009_fix_vector_structure.sql, from DROP INDEX on: an unguarded ALTER to
\* VECTOR(384), whose failure ends the script, then match_documents(VECTOR(384)).
FixVectorStructure ==
    /\ AlterSucceeds(HuggingFaceDimension)
    /\ embedding_dim' = HuggingFaceDimension
    /\ match_dim' = HuggingFaceDimension
    /\ UNCHANGED <<status, error, chunk_count, content, api_chunks, kafka, attempts,
                   documentStatuses, rendered, searchVars>>
    /\ UNCHANGED <<answer, embed_tries, last_delete, authVars, uiVars>>

\* ---------------------------------------------------------------- page.tsx
\* The sessions supabase.auth can deliver; "null" is no session.
Sessions == {"s1", "s2"}

\* session.expires_at in seconds; 0 stands for a session without the field,
\* which is optional in StoredSession.
expires_at(s) == IF s = "s2" THEN MaxSeconds ELSE 0

\* Date.now() is in milliseconds, expires_at in seconds.
MsPerSecond == 1000

\* The values Date.now() takes: around every second up to past the expiry.
Clock == {sec * MsPerSecond + ms : sec \in 0..(MaxSeconds + 1), ms \in {0, 1}}

\* JSON.stringify(session): the text stored for a session value; the value
\* null is stored as the text null.
JSONStringify(s) == <<"json", s>>

\* A stored text JSON.parse raises on.
Unparseable == <<"text", "{not json">>

\* The texts the item can hold.
Items == {NoItem, Unparseable} \cup {JSONStringify(s) : s \in Sessions \cup {"null"}}

JSONParse(item) == item[2]

\* sessionStorage.getSession(): what it returns for the stored item, and
\* the item it leaves: the catch block clears the item JSON.parse raised on.
GetSessionReturns(item) ==
    IF item = NoItem \/ item = Unparseable THEN "null" ELSE JSONParse(item)

GetSessionKeeps(item) == item

GetSessionLeaves(item) == IF item = Unparseable THEN NoItem ELSE item

getSession == GetSessionReturns(localStorage)

\* session.expires_at && Date.now() > session.expires_at * 1000
Expired(s, now) == expires_at(s) # 0 /\ now > expires_at(s) * MsPerSecond

\* sessionStorage.setSession(s), by any caller.
SetSession(s) ==
    /\ localStorage' = JSONStringify(s)
    /\ UNCHANGED <<isClient, subscription, session>>
    /\ UNCHANGED <<status, error, chunk_count, content, api_chunks, kafka, attempts,
                   documentStatuses, rendered, searchVars>>
    /\ UNCHANGED <<answer, embed_tries, last_delete, schemaVars, uiVars>>

\* Something else than sessionStorage leaves a text under the key that is
\* not JSON.
Corrupt ==
    /\ localStorage' = Unparseable
    /\ UNCHANGED <<isClient, subscription, session>>
    /\ UNCHANGED <<status, error, chunk_count, content, api_chunks, kafka, attempts,
                   documentStatuses, rendered, searchVars>>
    /\ UNCHANGED <<answer, embed_tries, last_delete, schemaVars, uiVars>>

\* A call of sessionStorage.getSession() in the browser.
GetSession ==
    /\ localStorage' = GetSessionLeaves(localStorage)
    /\ storage_call' = [op |-> "getSession", before |-> localStorage,
                        after |-> localStorage', now |-> 0,
                        session |-> GetSessionReturns(localStorage), valid |-> FALSE]
    /\ UNCHANGED <<isClient, subscription, session>>
    /\ UNCHANGED <<status, error, chunk_count, content, api_chunks, kafka, attempts,
                   documentStatuses, rendered, searchVars>>
    /\ UNCHANGED <<answer, embed_tries, last_delete, schemaVars>>
    /\ UNCHANGED <<llm_init, chat, deletion, drop>>

\* A call of sessionStorage.hasValidSession() at time now: getSession, then
\* the expiry test, which clears an expired session.
HasValidSession(now) ==
    LET got == GetSessionReturns(localStorage)
        left == GetSessionLeaves(localStorage)
    IN /\ localStorage' = IF got # "null" /\ Expired(got, now) THEN NoItem ELSE left
       /\ storage_call' = [op |-> "hasValidSession", before |-> localStorage,
                           after |-> localStorage', now |-> now, session |-> got,
                           valid |-> got # "null" /\ ~Expired(got, now)]
       /\ UNCHANGED <<isClient, subscription, session>>
       /\ UNCHANGED <<status, error, chunk_count, content, api_chunks, kafka, attempts,
                      documentStatuses, rendered, searchVars>>
       /\ UNCHANGED <<answer, embed_tries, last_delete, schemaVars>>
       /\ UNCHANGED <<llm_init, chat, deletion, drop>>

\* Home is mounted in the browser.  Both effects run after the first render:
\* the first calls setIsClient(true), the second subscribes to auth changes
\* with a callback that closes over the isClient of the render it ran in.
\* Its dependency list is [supabase], so it does not run again.
Mount ==
    /\ ~subscription.active
    /\ session' = IF isClient /\ getSession # "null" THEN getSession ELSE session
    /\ subscription' = [active |-> TRUE, isClient |-> isClient]
    /\ isClient' = TRUE
    /\ localStorage' = IF isClient THEN GetSessionLeaves(localStorage) ELSE localStorage
    /\ UNCHANGED <<status, error, chunk_count, content, api_chunks, kafka, attempts,
                   documentStatuses, rendered, searchVars>>
    /\ UNCHANGED <<answer, embed_tries, last_delete, schemaVars, uiVars>>

\* supabase.auth.getSession().then(...): the initial session arrives.
GetSessionResolves(s) ==
    /\ subscription.active
    /\ localStorage' = IF s # "null" /\ subscription.isClient
                       THEN JSONStringify(s) ELSE localStorage
    /\ session' = IF s # "null" THEN s ELSE session
    /\ UNCHANGED <<isClient, subscription>>
    /\ UNCHANGED <<status, error, chunk_count, content, api_chunks, kafka, attempts,
                   documentStatuses, rendered, searchVars>>
    /\ UNCHANGED <<answer, embed_tries, last_delete, schemaVars, uiVars>>

\* The callback of onAuthStateChange: s is the session of the event, "null"
\* on logout.
AuthStateChange(s) ==
    /\ subscription.active
    /\ localStorage' = IF s # "null" /\ subscription.isClient THEN JSONStringify(s)
                       ELSE IF s # "null" THEN localStorage
                       ELSE IF subscription.isClient THEN NoItem
                       ELSE localStorage
    /\ session' = s
    /\ UNCHANGED <<isClient, subscription>>
    /\ UNCHANGED <<status, error, chunk_count, content, api_chunks, kafka, attempts,
                   documentStatuses, rendered, searchVars>>
    /\ UNCHANGED <<answer, embed_tries, last_delete, schemaVars, uiVars>>

\* ---------------------------------------------------------------- Embedder
\* The retry policy of embed(text): embed_tries[a] counts the tries of the
\* current call of run a that have failed and are being retried.
MaxEmbedAttempts == 3

EmbedFailures == {"transient", "permanent"}

\* Network and rate-limit failures are retried, authentication and quota
\* failures are not.
RetryableAlways(failure) == TRUE

Retryable(failure) == failure = "transient"

\* One try of the call fails.  It is retried when the failure is retryable
\* and tries are left; otherwise EmbeddingError leaves the call and ends the
\* run as any exception of process_document_immediately does.
EmbedTryFails(a, failure) ==
    /\ attempts[a].pc = "embed"
    /\ IF Retryable(failure) /\ embed_tries[a] + 1 < MaxEmbedAttempts
       THEN /\ embed_tries' = [embed_tries EXCEPT ![a] = @ + 1]
            /\ UNCHANGED <<status, error, attempts>>
       ELSE /\ embed_tries' = [embed_tries EXCEPT ![a] = 0]
            /\ status' = MarkFailed(attempts[a].doc)
            /\ error' = IF Exists(attempts[a].doc)
                        THEN [error EXCEPT ![attempts[a].doc] = "EmbeddingError"]
                        ELSE error
            /\ attempts' = [attempts EXCEPT ![a].pc = "done", ![a].i = 0]
    /\ UNCHANGED <<content, api_chunks, kafka, documentStatuses, rendered>>
    /\ UNCHANGED <<chunk_count, searchVars, answer, last_delete, authVars, schemaVars, uiVars>>

\* A try of the call succeeds and the insert of the row raises.
EmbedThenInsertFails(a) ==
    /\ attempts[a].pc = "embed"
    /\ embed_tries' = [embed_tries EXCEPT ![a] = 0]
    /\ status' = MarkFailed(attempts[a].doc)
    /\ error' = IF Exists(attempts[a].doc)
                THEN [error EXCEPT ![attempts[a].doc] = "VectorStoreError"]
                ELSE error
    /\ attempts' = [attempts EXCEPT ![a].pc = "done", ![a].i = 0]
    /\ UNCHANGED <<content, api_chunks, kafka, documentStatuses, rendered>>
    /\ UNCHANGED <<chunk_count, searchVars, answer, last_delete, authVars, schemaVars, uiVars>>

\* A try of the call succeeds and the row is inserted.
EmbedThenInsert(a) ==
    /\ attempts[a].pc = "embed"
    /\ DocIdReferenced(attempts[a].doc)
    /\ embed_tries' = [embed_tries EXCEPT ![a] = 0]
    /\ api_chunks' = api_chunks \cup
          {[doc_id |-> attempts[a].doc, attempt |-> a, chunk_index |-> attempts[a].i]}
    /\ attempts' = [attempts EXCEPT
          ![a].i = IF attempts[a].i + 1 = content[attempts[a].doc] THEN 0 ELSE @ + 1,
          ![a].pc = IF attempts[a].i + 1 = content[attempts[a].doc] THEN "update" ELSE "embed"]
    /\ UNCHANGED <<status, error, content, kafka, documentStatuses, rendered>>
    /\ UNCHANGED <<chunk_count, searchVars, answer, last_delete, authVars, schemaVars, uiVars>>

\* .update({"status": "ready"}).eq("id", doc_id) changes the rows that match
\* and creates none.
UpsertReady(d) == [status EXCEPT ![d] = "ready"]

MarkReady(d) == IF Exists(d) THEN [status EXCEPT ![d] = "ready"] ELSE status

\* 5. supabase.table("api_documents").update({"status": "ready"})
UpdateReady(a) ==
    /\ attempts[a].pc = "update"
    /\ status' = MarkReady(attempts[a].doc)
    /\ attempts' = [attempts EXCEPT ![a].pc = "done"]
    /\ UNCHANGED <<error, content, api_chunks, kafka, documentStatuses, rendered>>
    /\ UNCHANGED <<chunk_count, searchVars, sideVars>>

AttemptStep(a) ==
    \/ DownloadFails(a) \/ LoadFails(a) \/ Split(a)
    \/ EmbedFails(a) \/ InsertFails(a) \/ Insert(a)
    \/ UpdateReady(a)

\* --------------------------------------------------------------- frontend
\* DocumentList writes documentStatuses one key at a time and nothing reads
\* an entry but the ProcessingStatus element of its document, so the model
\* keeps the entry written last and the element rendered from it.

\* statuses[doc.id] = await api.checkDocumentStatus(doc.id), answered by /status.
CheckDocumentStatus(d) ==
    /\ Exists(d)
    /\ documentStatuses' = [doc |-> d, status |-> GetStatus(d).status,
                            chunk_count |-> GetStatus(d).chunk_count]
    /\ rendered' = Render(documentStatuses')
    /\ UNCHANGED <<status, error, content, api_chunks, kafka, attempts>>
    /\ UNCHANGED <<chunk_count, searchVars, sideVars>>

\* The status call throws; the entry becomes unknown / 0.
CheckDocumentStatusFails(d) ==
    /\ Exists(d)
    /\ documentStatuses' = [doc |-> d, status |-> "unknown", chunk_count |-> 0]
    /\ rendered' = Render(documentStatuses')
    /\ UNCHANGED <<status, error, content, api_chunks, kafka, attempts>>
    /\ UNCHANGED <<chunk_count, searchVars, sideVars>>

\* handleRetry of the ProcessingStatus element of document d, clicked on the
\* Retry button the element renders: api.processDocument(docId).
HandleRetry(d) ==
    /\ documentStatuses.doc = d
    /\ RetryOffered(StatusProp(documentStatuses), ChunkCountProp(documentStatuses))
    /\ ManualProcess(d)

\* handleDelete of DocumentList: delete the api_documents row, which
\* cascades to the document's chunk rows, remove the stored file, then delete
\* the chunk rows by doc_id.  Runs of the document are not told.
Delete(d) ==
    /\ Exists(d)
    /\ status' = [status EXCEPT ![d] = "deleted"]
    /\ error' = [error EXCEPT ![d] = "NULL"]
    /\ chunk_count' = [chunk_count EXCEPT ![d] = 0]
    /\ api_chunks' = {r \in api_chunks : r.doc_id # d}
    /\ UNCHANGED <<content, kafka, attempts, documentStatuses, rendered, searchVars, sideVars>>

\* supabase.from('api_chunks').delete().eq('doc_id', docId): the rows left in
\* the table.  A delete that matches no row is not an error.
delete_all_chunks(rows, d) == {}

delete_chunks(rows, d) == {r \in rows : r.doc_id # d}

\* The chunk rows of document d are deleted, whether it has any or not.
DeleteChunks(d) ==
    /\ api_chunks' = delete_chunks(api_chunks, d)
    /\ last_delete' = d
    /\ UNCHANGED <<status, error, chunk_count, content, kafka, attempts,
                   documentStatuses, rendered, searchVars>>
    /\ UNCHANGED <<answer, embed_tries, authVars, schemaVars, uiVars>>

\* ------------------------------------------------- handleDelete, by steps
\* if (dbError) throw dbError
RowDeleteIgnored(dbError) == FALSE

RowDeleteThrows(dbError) == dbError

\* What no step of handleDelete writes.
DeleteFrame ==
    /\ UNCHANGED <<content, kafka, attempts, documentStatuses, rendered, searchVars>>
    /\ UNCHANGED <<answer, embed_tries, last_delete, authVars, schemaVars>>
    /\ UNCHANGED <<llm_init, storage_call, chat, drop>>

\* The user confirms the deletion of document d, whose file is in the
\* storage bucket when storage_path is set.
ConfirmDelete(d, storage_path) ==
    /\ deletion.pc \in {"idle", "done"}
    /\ Exists(d)
    /\ deletion' = [NoDeletion EXCEPT
          !.pc = "row", !.doc = d, !.before = ChunksOf(d),
          !.file = IF storage_path THEN "stored" ELSE "none"]
    /\ UNCHANGED <<status, error, chunk_count, api_chunks>>
    /\ DeleteFrame

\* supabase.from('api_documents').delete().eq('id', docId) answers, with or
\* without an error.  An error is thrown to the catch block; otherwise the
\* row is gone, and its chunk rows with it (ON DELETE CASCADE).
RowDelete(dbError) ==
    /\ deletion.pc = "row"
    /\ IF dbError
       THEN /\ deletion' = [deletion EXCEPT
                  !.row = "failed",
                  !.pc = IF RowDeleteThrows(dbError) THEN "done"
                         ELSE IF deletion.file = "stored" THEN "storage" ELSE "chunks",
                  !.toast = IF RowDeleteThrows(dbError)
                            THEN "Failed to delete document" ELSE @]
            /\ UNCHANGED <<status, error, chunk_count, api_chunks>>
       ELSE /\ deletion' = [deletion EXCEPT
                  !.row = "deleted",
                  !.pc = IF deletion.file = "stored" THEN "storage" ELSE "chunks"]
            /\ status' = [status EXCEPT ![deletion.doc] = "deleted"]
            /\ error' = [error EXCEPT ![deletion.doc] = "NULL"]
            /\ chunk_count' = [chunk_count EXCEPT ![deletion.doc] = 0]
            /\ api_chunks' = delete_chunks(api_chunks, deletion.doc)
    /\ DeleteFrame

\* supabase.storage.from('api-docs').remove([storage_path]) answers; an
\* error is logged.
StorageRemove(storageError) ==
    /\ deletion.pc = "storage"
    /\ deletion' = [deletion EXCEPT
          !.file = IF storageError THEN @ ELSE "removed",
          !.warned = IF storageError THEN @ + 1 ELSE @,
          !.pc = "chunks"]
    /\ UNCHANGED <<status, error, chunk_count, api_chunks>>
    /\ DeleteFrame

\* supabase.from('api_chunks').delete().eq('doc_id', docId) answers; an error
\* is logged.  Then the success toast and onDocumentDelete().
ChunksDelete(chunksError) ==
    /\ deletion.pc = "chunks"
    /\ api_chunks' = IF chunksError THEN api_chunks
                     ELSE delete_chunks(api_chunks, deletion.doc)
    /\ deletion' = [deletion EXCEPT
          !.warned = IF chunksError THEN @ + 1 ELSE @,
          !.pc = "done",
          !.toast = "Document deleted successfully",
          !.callback = TRUE]
    /\ UNCHANGED <<status, error, chunk_count>>
    /\ DeleteFrame

\* ------------------------------------------------------------------ onDrop
\* File names, as their parts: a "." is a part of its own.
FileNames ==
    { <<"openapi", ".", "yaml">>, <<"guide", ".", "PDF">>,
      <<"setup", ".", "exe">>, <<"README">> }

allowedTypes ==
    { <<".", "yaml">>, <<".", "yml">>, <<".", "json">>, <<".", "pdf">>,
      <<".", "md">>, <<".", "markdown">> }

\* name.toLowerCase()
toLowerCase(name) ==
    [k \in 1..Len(name) |-> IF name[k] = "PDF" THEN "pdf" ELSE name[k]]

\* name.lastIndexOf('.'), counted from 1; 0 when there is none.
lastIndexOf(name) ==
    LET dots == {k \in 1..Len(name) : name[k] = "."}
    IN  IF dots = {} THEN 0 ELSE CHOOSE k \in dots : \A j \in dots : j <= k

\* file.name.toLowerCase().substring(file.name.lastIndexOf('.')): without a
\* "." the index is -1 and substring gives the whole name.
fileExtension(name) ==
    LET from == IF lastIndexOf(name) = 0 THEN 1 ELSE lastIndexOf(name)
    IN  SubSeq(toLowerCase(name), from, Len(name))

\* The position of the first file from position i on that is not skipped;
\* Len(files) + 1 when the loop ends.
RECURSIVE NextUpload(_, _)
NextUpload(files, i) ==
    IF i > Len(files) THEN i
    ELSE IF fileExtension(files[i]) \in allowedTypes THEN i
    ELSE NextUpload(files, i + 1)

\* if (!response.ok) throw new Error(...)
UploadNeverThrows(ok) == FALSE

UploadThrows(ok) == ~ok

\* What onDrop does not write.
DropFrame ==
    /\ UNCHANGED <<status, error, chunk_count, content, api_chunks, kafka,
                   attempts, documentStatuses, rendered, searchVars>>
    /\ UNCHANGED <<answer, embed_tries, last_delete, authVars, schemaVars>>
    /\ UNCHANGED <<llm_init, storage_call, chat, deletion>>

\* onDrop runs from position i of the loop until its next fetch, or through
\* onUploadComplete() and the finally block when no file is left.
RunLoop(d, i) ==
    LET j == NextUpload(d.acceptedFiles, i)
    IN  IF j > Len(d.acceptedFiles)
        THEN [d EXCEPT !.pc = "idle", !.callback = TRUE,
                       !.uploading = FALSE, !.uploadProgress = 0]
        ELSE [d EXCEPT !.pc = "fetch", !.posted = Append(@, j)]

\* Files are dropped on the area, which takes no pointer events while
\* uploading.
OnDrop(acceptedFiles) ==
    /\ drop.pc = "idle"
    /\ ~drop.uploading
    /\ drop' = RunLoop([NoDrop EXCEPT !.acceptedFiles = acceptedFiles,
                                      !.uploading = TRUE,
                                      !.uploadProgress = 0], 1)
    /\ DropFrame

\* The response of /api/upload arrives.  Not ok: the catch block and the
\* finally block.  Ok: the progress grows by 100 / acceptedFiles.length
\* (rounded down here) and the loop goes on.
UploadResponds(ok) ==
    /\ drop.pc = "fetch"
    /\ LET i == drop.posted[Len(drop.posted)]
           seen == [drop EXCEPT
                      !.failed = IF ~ok /\ @ = 0 THEN i ELSE @]
       IN  drop' =
             IF UploadThrows(ok)
             THEN [seen EXCEPT !.pc = "idle", !.toast = "Upload failed. Please try again.",
                               !.uploading = FALSE, !.uploadProgress = 0]
             ELSE RunLoop([seen EXCEPT
                             !.uploadProgress =
                                 @ + (100 \div Len(drop.acceptedFiles))],
                          i + 1)
    /\ DropFrame

\* -------------------------------------------------------- match_documents
\* A row of a searched table carries api_chunks.embedding <=> query_embedding,
\* the cosine distance of its embedding to the query, in units of 1/MaxScore.
SearchRows ==
    [doc_id : SearchDocs, attempt : {1}, chunk_index : 0..(MaxChunks - 1),
     distance : 0..MaxScore]

\* The tables of at most MaxRows rows.
SearchTables ==
    {{}} \cup {{f[i] : i \in 1..MaxRows} : f \in [1..MaxRows -> SearchRows]}

\* 1 - (api_chunks.embedding <=> query_embedding) AS similarity
Similarity(r) == MaxScore - r.distance

\* WHERE 1 - (api_chunks.embedding <=> query_embedding) > match_threshold
AtOrAboveThreshold(similarity, match_threshold) == similarity >= match_threshold

AboveThreshold(similarity, match_threshold) == similarity > match_threshold

\* CASE WHEN filter->>'doc_id' IS NOT NULL THEN doc_id = ... ELSE TRUE END;
\* filter 0 stands for a filter without a doc_id key.
AnyDocument(r, filter) == TRUE

PassesFilter(r, filter) == IF filter # 0 THEN r.doc_id = filter ELSE TRUE

\* The rows the WHERE clause lets through.
Eligible(match_threshold, filter) ==
    {r \in api_chunks :
        AboveThreshold(Similarity(r), match_threshold) /\ PassesFilter(r, filter)}

\* ORDER BY api_chunks.embedding <=> query_embedding: every enumeration of S
\* in which the distance never decreases.  The clause names no second key,
\* so rows at the same distance come in whatever order the scan yields.
OrderByDistance(S) ==
    {s \in [1..Cardinality(S) -> S] :
        /\ \A i, j \in 1..Cardinality(S) : i # j => s[i] # s[j]
        /\ \A i, j \in 1..Cardinality(S) : i < j => s[i].distance <= s[j].distance}

\* LIMIT match_count
Limit(s, match_count) ==
    SubSeq(s, 1, IF match_count < Len(s) THEN match_count ELSE Len(s))

\* The results match_documents may return for a call.
match_documents(match_threshold, match_count, filter) ==
    {Limit(s, match_count) : s \in OrderByDistance(Eligible(match_threshold, filter))}

\* One call of match_documents on the stored table.  The function reads
\* the table and its arguments only, so a behaviour makes one call.
SearchChunks(match_threshold, match_count, filter) ==
    /\ ~search_call.made
    /\ search_call' = [threshold |-> match_threshold, count |-> match_count,
                       filter |-> filter, made |-> TRUE]
    /\ search_result' \in match_documents(match_threshold, match_count, filter)
    /\ UNCHANGED <<status, error, chunk_count, content, api_chunks, kafka, attempts,
                   documentStatuses, rendered, sideVars>>

\* ------------------------------------------------------- answer generator
\* summarizer.generate_answer(context, question, chunks): sentences taken
\* from the chunk texts.
Summarizer(chunks) == IF Len(chunks) = 0 THEN "" ELSE "extracted"

\* The fixed response to a question for which nothing was retrieved.
InsufficientContext ==
    [made |-> TRUE, llm |-> "absent", text |-> "insufficient context",
     degraded |-> FALSE, raised |-> FALSE, sources |-> 0, llm_called |-> FALSE,
     summarizer_called |-> FALSE]

\* if self.llm: try: answer = self.llm.invoke(prompt)
\*              except Exception: answer = self.summarizer.generate_answer(...)
\* and the summarizer alone when no LLM was initialised.
GenerateAnswerRaising(llm, chunks) ==
    IF llm = "succeeds"
    THEN [made |-> TRUE, llm |-> llm, text |-> "generated", degraded |-> FALSE,
          raised |-> FALSE, sources |-> Len(chunks), llm_called |-> TRUE,
          summarizer_called |-> FALSE]
    ELSE [made |-> TRUE, llm |-> llm, text |-> "", degraded |-> FALSE,
          raised |-> TRUE, sources |-> 0, llm_called |-> llm = "fails",
          summarizer_called |-> FALSE]

GenerateAnswer(llm, chunks) ==
    IF llm = "succeeds"
    THEN [made |-> TRUE, llm |-> llm, text |-> "generated", degraded |-> FALSE,
          raised |-> FALSE, sources |-> Len(chunks), llm_called |-> TRUE,
          summarizer_called |-> FALSE]
    ELSE [made |-> TRUE, llm |-> llm, text |-> Summarizer(chunks), degraded |-> TRUE,
          raised |-> FALSE, sources |-> Len(chunks), llm_called |-> llm = "fails",
          summarizer_called |-> TRUE]

\* answer(question, retrieved_chunks)
AnswerAlwaysGenerating(llm, chunks) == GenerateAnswer(llm, chunks)

Answer(llm, chunks) ==
    IF Len(chunks) = 0
    THEN [InsufficientContext EXCEPT !.llm = llm]
    ELSE GenerateAnswer(llm, chunks)

\* POST /ask: search the chunks of the selected document, then answer from
\* what was retrieved.
AskQuestion(match_threshold, match_count, doc_id, llm) ==
    /\ ~search_call.made
    /\ search_call' = [threshold |-> match_threshold, count |-> match_count,
                       filter |-> doc_id, made |-> TRUE]
    /\ search_result' \in match_documents(match_threshold, match_count, doc_id)
    /\ answer' = Answer(llm, search_result')
    /\ UNCHANGED <<status, error, chunk_count, content, api_chunks, kafka, attempts,
                   documentStatuses, rendered>>
    /\ UNCHANGED <<embed_tries, last_delete, authVars, schemaVars, uiVars>>

\* What a question retrieves from the stored chunks of document d: nothing,
\* or one of its rows.  Which one depends on the question alone.
Retrievable(d) == {<<>>} \cup {<<r>> : r \in ChunksOf(d)}

\* POST /ask while documents are being processed: the same handler, asked
\* about document d, with what the question retrieves given as an input.
\* The handler reads api_chunks and keeps nothing but its response; one
\* question is followed per behaviour.
AskDuringIngestionPurging(d, retrieved, llm) ==
    /\ ~answer.made
    /\ Exists(d)
    /\ retrieved \in Retrievable(d)
    /\ answer' = Answer(llm, retrieved)
    /\ api_chunks' = {r \in api_chunks : \A i \in 1..Len(retrieved) : retrieved[i] # r}
    /\ UNCHANGED <<status, error, chunk_count, content, kafka, attempts,
                   documentStatuses, rendered, searchVars>>
    /\ UNCHANGED <<embed_tries, last_delete, authVars, schemaVars, uiVars>>

AskDuringIngestion(d, retrieved, llm) ==
    /\ ~answer.made
    /\ Exists(d)
    /\ retrieved \in Retrievable(d)
    /\ answer' = Answer(llm, retrieved)
    /\ UNCHANGED <<status, error, chunk_count, content, api_chunks, kafka, attempts,
                   documentStatuses, rendered, searchVars>>
    /\ UNCHANGED <<embed_tries, last_delete, authVars, schemaVars, uiVars>>

\* A store that holds the processed chunks of the documents of SearchDocs.
SearchInit ==
    /\ api_chunks \in SearchTables
    /\ status = [d \in SearchDocs |-> "ready"]
    /\ error = [d \in SearchDocs |-> "NULL"]
    /\ chunk_count = [d \in SearchDocs |-> 0]
    /\ content = [d \in SearchDocs |-> MaxChunks]
    /\ kafka = [d \in SearchDocs |-> 0]
    /\ attempts = [a \in Attempts |-> IdleAttempt]
    /\ documentStatuses = NoEntry
    /\ rendered = Render(NoEntry)
    /\ search_call = NoCall
    /\ search_result = <<>>
    /\ SideInit

SearchNext ==
    \/ \E match_threshold \in 0..MaxScore, match_count \in 1..MaxRows,
          filter \in {0} \cup SearchDocs :
           SearchChunks(match_threshold, match_count, filter)
    \/ \E match_threshold \in 0..MaxScore, match_count \in 1..MaxRows,
          doc_id \in SearchDocs, llm \in LlmStates :
           AskQuestion(match_threshold, match_count, doc_id, llm)

SearchSpec == SearchInit /\ [][SearchNext]_vars

\* ------------------------------------------------------------------ Next
Next ==
    \/ \E d \in Docs, n \in 0..MaxChunks : Upload(d, n)
    \/ \E d \in Docs : WorkerConsume(d)
    \/ \E d \in Docs : ManualProcess(d)
    \/ \E a \in Attempts : DownloadFails(a)
    \/ \E a \in Attempts : LoadFails(a)
    \/ \E a \in Attempts : Split(a)
    \/ \E a \in Attempts : EmbedFails(a)
    \/ \E a \in Attempts : Insert(a)
    \/ \E a \in Attempts : InsertFails(a)
    \/ \E a \in Attempts : UpdateReady(a)

Spec == Init /\ [][Next]_vars

\* The backend together with a DocumentList that polls /status.
FrontendNext ==
    \/ Next
    \/ \E d \in Docs : CheckDocumentStatus(d)
    \/ \E d \in Docs : CheckDocumentStatusFails(d)

FrontendSpec == Init /\ [][FrontendNext]_vars

\* A running attempt is cancelled by its caller: it stops where it is and
\* writes nothing more.
Cancel(a) ==
    /\ Running(a)
    /\ attempts' = [attempts EXCEPT ![a].pc = "cancelled", ![a].i = 0]
    /\ UNCHANGED <<status, error, content, api_chunks, kafka, documentStatuses, rendered>>
    /\ UNCHANGED <<chunk_count, searchVars, sideVars>>

\* The backend with callers that may cancel a run.
CancelNext ==
    \/ Next
    \/ \E a \in Attempts : Cancel(a)

CancelSpec == Init /\ [][CancelNext]_vars

\* The backend with a user who may delete documents.
DeleteNext ==
    \/ Next
    \/ \E d \in Docs : Delete(d)

DeleteSpec == Init /\ [][DeleteNext]_vars

\* The file lists of a drop.
RECURSIVE FileLists(_)
FileLists(n) ==
    IF n = 0 THEN {<<>>}
    ELSE FileLists(n - 1) \cup
         {Append(fs, f) : fs \in {l \in FileLists(n - 1) : Len(l) = n - 1},
                          f \in FileNames}

\* DocumentUpload under every drop and every outcome of its uploads.
DropNext ==
    \/ \E acceptedFiles \in FileLists(MaxFiles) : OnDrop(acceptedFiles)
    \/ \E ok \in BOOLEAN : UploadResponds(ok)

DropSpec == Init /\ [][DropNext]_vars

\* handleDelete on the documents of a store of processed chunks.
HandleDeleteNext ==
    \/ \E d \in SearchDocs, storage_path \in BOOLEAN : ConfirmDelete(d, storage_path)
    \/ \E dbError \in BOOLEAN : RowDelete(dbError)
    \/ \E storageError \in BOOLEAN : StorageRemove(storageError)
    \/ \E chunksError \in BOOLEAN : ChunksDelete(chunksError)

HandleDeleteSpec == SearchInit /\ [][HandleDeleteNext]_vars

\* ChatInterface under every sequence of user events and request outcomes.
ChatNext ==
    \/ \E documents \in SUBSET SearchDocs, selectedDocument \in SearchDocs \cup {0} :
          MountChat(selectedDocument, documents)
    \/ UnmountChat
    \/ \E d \in SearchDocs : ChooseDocument(d)
    \/ \E d \in SearchDocs \cup {0} : SelectDocument(d)
    \/ \E v \in InputValues : TypeInput(v)
    \/ PressEnter
    \/ ClickSend
    \/ \E reply \in {"assistant", "error"} : AskSettles(reply)

ChatSpec == Init /\ [][ChatNext]_vars

\* A request that was sent settles.
ChatLiveSpec ==
    ChatSpec /\ WF_vars(\E reply \in {"assistant", "error"} : AskSettles(reply))

\* The backend, the polling DocumentList and the Retry buttons it shows.
RetryNext ==
    \/ FrontendNext
    \/ \E d \in Docs : HandleRetry(d)

RetrySpec == Init /\ [][RetryNext]_vars

\* The calls of sessionStorage on every text the item can hold.
SessionNext ==
    \/ \E s \in Sessions \cup {"null"} : SetSession(s)
    \/ Corrupt
    \/ GetSession
    \/ \E now \in Clock : HasValidSession(now)

SessionSpec == Init /\ [][SessionNext]_vars

\* The start of a RAGService in every environment of provider outcomes.
LlmInitNext ==
    \/ \E outcomes \in [1..Len(Providers) -> InitOutcomes] : InitializeLlm(outcomes)
    \/ TryProvider

LlmInitSpec == Init /\ [][LlmInitNext]_vars

\* The backend on a database to which the migrations are applied.
MigrationNext ==
    \/ Next
    \/ CompleteSetup
    \/ FixMatchFunction
    \/ RevertToOpenAI
    \/ FixVectorDimensions
    \/ FixVectorStructure

MigrationSpec == Init /\ [][MigrationNext]_vars

\* The backend together with the Home page of a browser.
AuthNext ==
    \/ Next
    \/ Mount
    \/ \E s \in Sessions \cup {"null"} : AuthStateChange(s)
    \/ \E s \in Sessions \cup {"null"} : GetSessionResolves(s)

AuthSpec == Init /\ [][AuthNext]_vars

\* The backend with the tries of the embedding calls made visible.
EmbedNext ==
    \/ \E d \in Docs, n \in 0..MaxChunks : Upload(d, n)
    \/ \E d \in Docs : WorkerConsume(d)
    \/ \E d \in Docs : ManualProcess(d)
    \/ \E a \in Attempts : DownloadFails(a)
    \/ \E a \in Attempts : LoadFails(a)
    \/ \E a \in Attempts : Split(a)
    \/ \E a \in Attempts, failure \in EmbedFailures : EmbedTryFails(a, failure)
    \/ \E a \in Attempts : EmbedThenInsert(a)
    \/ \E a \in Attempts : EmbedThenInsertFails(a)
    \/ \E a \in Attempts : UpdateReady(a)

EmbedSpec == Init /\ [][EmbedNext]_vars

\* A store of processed chunks whose documents' chunks are deleted.
StoreNext == \E d \in SearchDocs : DeleteChunks(d)

StoreSpec == SearchInit /\ [][StoreNext]_vars

\* The backend with users who ask questions while documents are processed.
AskNext ==
    \/ Next
    \/ \E d \in Docs, llm \in LlmStates :
          \E retrieved \in Retrievable(d) : AskDuringIngestion(d, retrieved, llm)

AskSpec == Init /\ [][AskNext]_vars

\* A started run keeps executing until it returns or raises.
LiveSpec == Spec /\ \A a \in Attempts : WF_vars(AttemptStep(a))

DeleteLiveSpec == DeleteSpec /\ \A a \in Attempts : WF_vars(AttemptStep(a))

TypeOK ==
    /\ status \in [Docs -> StoredStatuses]
    /\ error \in [Docs -> {"NULL"} \cup ErrorKinds]
    /\ chunk_count \in [Docs -> 0..MaxChunks]
    /\ content \in [Docs -> 0..MaxChunks]
    /\ kafka \in [Docs -> 0..1]
    /\ \A a \in Attempts : attempts[a].pc \in
          {"idle", "download", "embed", "update", "done", "cancelled"}

\* ------------------------------------------------------------ properties
\* Whether run a has written to the document row or to the chunk table.
Touched(a) ==
    \/ attempts[a].pc = "done"
    \/ \E r \in api_chunks : r.attempt = a

\* The chunk set one complete run a of document d writes.
CompleteSet(d, a) ==
    {[doc_id |-> d, attempt |-> a, chunk_index |-> i] : i \in 0..(content[d] - 1)}

\* C1: for every document id at most one processing attempt is in progress
\* (holds the claim) at any time, whichever of the upload-time, queue and
\* manual triggers started it.
C1_AtMostOneAttempt ==
    \A d \in Docs : Cardinality(RunningOn(d)) <= 1

\* C2: of two invocations that ran concurrently for the same document only
\* one writes anything; the other changes neither the status nor the chunks.
C2_SecondInvocationNoOp ==
    \A a, b \in Attempts :
        (a # b /\ b \in attempts[a].rivals) => ~(Touched(a) /\ Touched(b))

C4_ReadyHasChunks ==
    \A d \in Docs : status[d] = "ready" => ChunkCount(d) > 0

\* C5: once an attempt on a document whose text yields zero chunks has ended,
\* the status is failed with a non-empty error and no chunk is stored; the
\* status of such a document is never ready.
C5_EmptyDocumentFails ==
    \A d \in Docs :
        (status[d] # "none" /\ content[d] = 0) =>
            /\ status[d] # "ready"
            /\ (\E a \in Attempts : attempts[a].doc = d /\ attempts[a].pc = "done") =>
                  (status[d] = "failed" /\ error[d] # "NULL" /\ ChunkCount(d) = 0)

\* C6: the chunks visible for a document are either none or the complete set
\* written by one attempt.
C6_NoPartialChunkSet ==
    \A d \in Docs :
        ChunksOf(d) = {} \/ \E a \in Attempts : ChunksOf(d) = CompleteSet(d, a)

\* C7: when no attempt is running on a document, its visible chunks all come
\* from a single attempt and no chunk_index occurs twice among them.
C7_RetryPurgesOldChunks ==
    \A d \in Docs :
        RunningOn(d) = {} =>
            \A r, s \in ChunksOf(d) :
                /\ r.attempt = s.attempt
                /\ (r # s => r.chunk_index # s.chunk_index)

\* C8: an attempt that ends on a failure path (storage fetch, extraction, empty
\* chunk sequence, embedding, vector-store write) leaves status failed and a
\* non-empty error, and is no longer in progress.
C8_FailurePathsEndFailed ==
    [][\A a \in Attempts :
          (/\ attempts[a].pc # "done"
           /\ attempts'[a].pc = "done"
           /\ (attempts[a].pc # "update" \/ content[attempts[a].doc] = 0))
          => (/\ status'[attempts[a].doc] = "failed"
              /\ error'[attempts[a].doc] # "NULL"
              /\ a \notin {b \in Attempts : attempts'[b].pc \notin {"idle", "done"}})]_vars

\* C9: under fair scheduling of started runs, a document in status processing
\* eventually has status ready or failed.
C9_ProcessingEventuallyEnds ==
    \A d \in Docs : (status[d] = "processing") ~> (status[d] \in {"ready", "failed"})

\* C9 witness: a run that raised has ended and the document left processing.
C9_Witness ==
    \E a \in Attempts :
        /\ attempts[a].pc = "done"
        /\ status[attempts[a].doc] = "failed"
        /\ error[attempts[a].doc] \in ErrorKinds

\* The edges of the document lifecycle, creation included.
LifecycleEdges ==
    {<<"none", "uploaded">>, <<"uploaded", "processing">>, <<"processing", "ready">>,
     <<"processing", "failed">>, <<"failed", "processing">>, <<"processing", "processing">>}

\* C10: a document is created with status uploaded and its status changes only
\* along uploaded->processing, processing->ready, processing->failed,
\* failed->processing.
C10_LifecycleEdgesOnly ==
    [][\A d \in Docs :
          status'[d] # status[d] => <<status[d], status'[d]>> \in LifecycleEdges]_vars

\* The stored chunks of document d that carry chunk_index i.
ChunksAt(d, i) == {r \in ChunksOf(d) : r.chunk_index = i}

\* C11: after an attempt succeeds on a document whose text splits into n
\* chunks, the chunk_index values stored for the document are exactly 0..n-1,
\* each carried by one chunk.
C11_ChunkIndexContiguous ==
    \A d \in Docs :
        status[d] = "ready" =>
            /\ \A r \in ChunksOf(d) : r.chunk_index \in 0..(content[d] - 1)
            /\ \A i \in 0..(content[d] - 1) : Cardinality(ChunksAt(d, i)) = 1

\* C12: in every state where a document's status is ready, its chunk_count
\* column equals the number of chunk rows stored for it.
C12_ChunkCountMatchesRows ==
    \A d \in Docs : status[d] = "ready" => chunk_count[d] = ChunkCount(d)

\* C13: a document's error is set only while its status is failed; a document
\* that is processing again or ready has no error.
C13_ErrorOnlyWhenFailed ==
    \A d \in Docs : error[d] # "NULL" => status[d] = "failed"

\* C14: a trigger delivered for a document that is already ready changes
\* nothing: no step of the run it starts changes the document's status, its
\* chunk_count or its stored chunks.
C14_TriggerOnReadyIsNoOp ==
    [][\A a \in Attempts :
          (attempts[a].late /\ attempts'[a].pc # attempts[a].pc) =>
              /\ status'[attempts[a].doc] = status[attempts[a].doc]
              /\ chunk_count'[attempts[a].doc] = chunk_count[attempts[a].doc]
              /\ {r \in api_chunks' : r.doc_id = attempts[a].doc} = ChunksOf(attempts[a].doc)]_vars

\* C15: an attempt that is cancelled at any step is no longer in progress and
\* leaves the document with status processing, never ready and never failed.
C15_CancelLeavesProcessing ==
    [][\A a \in Attempts :
          (attempts[a].pc # "cancelled" /\ attempts'[a].pc = "cancelled") =>
              /\ status'[attempts[a].doc] = "processing"
              /\ a \notin {b \in Attempts : attempts'[b].pc \in {"download", "embed", "update"}}]_vars

\* C16: after a document is deleted no chunk row refers to its id, in any
\* later state, also when a run of the document was inserting chunks at the
\* time of the deletion.
C16_NoChunksAfterDelete ==
    \A d \in Docs : status[d] = "deleted" => ChunksOf(d) = {}

\* C16 witness: the document was deleted while a run of it was between two
\* inserts of its loop.
C16_Witness ==
    \E a \in Attempts :
        /\ attempts[a].pc = "embed"
        /\ attempts[a].i > 0
        /\ status[attempts[a].doc] = "deleted"

C18_ThresholdIsStrict ==
    search_call.made =>
        \A i \in 1..Len(search_result) :
            Similarity(search_result[i]) > search_call.threshold

\* C18 witness: a call whose table holds a row exactly at the threshold that
\* passes the filter, answered with fewer rows than the limit allows.
C18_Witness ==
    /\ search_call.made
    /\ \E r \in api_chunks :
          /\ Similarity(r) = search_call.threshold
          /\ PassesFilter(r, search_call.filter)
    /\ Len(search_result) > 0
    /\ Len(search_result) < search_call.count

\* C19: the result of a call is the first min(limit, n) of the n eligible
\* rows in the order of descending similarity with ties by ascending
\* chunk_index: it has that length, holds eligible rows once each in that
\* order, and no row left out ranks strictly before a returned one.
C19_TopKInOrder ==
    search_call.made =>
        LET n == Cardinality(Eligible(search_call.threshold, search_call.filter))
            k == Len(search_result)
            RanksBefore(r, s) ==
                \/ Similarity(r) > Similarity(s)
                \/ Similarity(r) = Similarity(s) /\ r.chunk_index <= s.chunk_index
        IN  /\ k = (IF search_call.count < n THEN search_call.count ELSE n)
            /\ k <= search_call.count
            /\ \A i \in 1..k :
                  search_result[i] \in Eligible(search_call.threshold, search_call.filter)
            /\ \A i, j \in 1..k : i < j =>
                  /\ search_result[i] # search_result[j]
                  /\ RanksBefore(search_result[i], search_result[j])
            /\ \A r \in Eligible(search_call.threshold, search_call.filter) :
                  (\A i \in 1..k : search_result[i] # r) =>
                      \A i \in 1..k : RanksBefore(search_result[i], r)

\* C20: with a document filter every returned row belongs to that document;
\* without one the rows of all documents are eligible, so the result is as
\* long as the limit and the rows above the threshold allow.
C20_FilterRestrictsToDocument ==
    search_call.made =>
        /\ search_call.filter # 0 =>
              \A i \in 1..Len(search_result) : search_result[i].doc_id = search_call.filter
        /\ search_call.filter = 0 =>
              LET n == Cardinality({r \in api_chunks :
                                      Similarity(r) > search_call.threshold})
              IN  Len(search_result) =
                      (IF search_call.count < n THEN search_call.count ELSE n)

\* C20 witness: a filtered call that returned a row while a row of another
\* document was above the threshold.
C20_Witness ==
    /\ search_call.made
    /\ search_call.filter # 0
    /\ Len(search_result) > 0
    /\ \E r \in api_chunks :
          /\ r.doc_id # search_call.filter
          /\ Similarity(r) > search_call.threshold

\* C21: a search for which no row clears the threshold returns the empty
\* list, and the answer to a question for which nothing was retrieved is the
\* fixed insufficient-context response, not degraded, produced without a
\* call of the LLM or of the summarizer.
C21_EmptyRetrievalInsufficientContext ==
    /\ (search_call.made /\ Eligible(search_call.threshold, search_call.filter) = {})
          => search_result = <<>>
    /\ (answer.made /\ search_result = <<>>) =>
          /\ answer.text = "insufficient context"
          /\ ~answer.degraded
          /\ ~answer.raised
          /\ ~answer.llm_called
          /\ ~answer.summarizer_called

\* C21 witness: a question about a document that has stored chunks, none of
\* them above the threshold, asked while the LLM is available.
C21_Witness ==
    /\ answer.made
    /\ answer.llm = "succeeds"
    /\ search_result = <<>>
    /\ \E r \in api_chunks : r.doc_id = search_call.filter

C23_AskIsReadOnly ==
    [][answer' # answer =>
          /\ status' = status
          /\ error' = error
          /\ chunk_count' = chunk_count
          /\ api_chunks' = api_chunks]_vars

\* C23 witness: a question was answered from a retrieved chunk of a document
\* on which a run is in the middle of its inserts.
C23_Witness ==
    /\ answer.made
    /\ answer.sources > 0
    /\ \E a \in Attempts : attempts[a].pc = "embed" /\ attempts[a].i > 0

\* C24: deleting the chunks of a document leaves no chunk of it and keeps
\* every chunk of every other document; on a document without chunks, and
\* so when repeated, it succeeds and changes nothing.
C24_DeleteChunksIdempotent ==
    [][last_delete' # last_delete \/ api_chunks' # api_chunks =>
          /\ {r \in api_chunks' : r.doc_id = last_delete'} = {}
          /\ {r \in api_chunks' : r.doc_id # last_delete'} =
                {r \in api_chunks : r.doc_id # last_delete'}
          /\ ({r \in api_chunks : r.doc_id = last_delete'} = {} => api_chunks' = api_chunks)
          /\ delete_chunks(api_chunks', last_delete') = api_chunks']_vars

\* C24 witness: the chunks of a document were deleted and the chunks of
\* another document are still stored.
C24_Witness ==
    /\ last_delete # 0
    /\ \E r \in api_chunks : r.doc_id # last_delete

C26_NoCheckOnceSettled ==
    [][(/\ documentStatuses.doc # 0
        /\ documentStatuses.status \in {"ready", "failed"}
        /\ \A d \in Docs : Exists(d) <=> d = documentStatuses.doc
        /\ \A d \in Docs : Exists(d)' <=> Exists(d))
          => documentStatuses' = documentStatuses]_vars

\* C27: a status check of a document that fails leaves the status and the
\* chunk count DocumentList knew for the document: a known entry is never
\* replaced by the entry unknown / 0.
C27_FailedCheckKeepsEntry ==
    [][(/\ documentStatuses.doc # 0
        /\ documentStatuses.status # "unknown"
        /\ documentStatuses'.doc = documentStatuses.doc)
          => documentStatuses'.status # "unknown"]_vars

\* C28: in the browser, every auth change that carries a session stores that
\* session in localStorage and a logout clears it: after an auth change
\* getSession returns the session of the page, null after a logout.
C28_SessionStoredAndCleared ==
    [][(isClient /\ subscription.active /\ session' # session)
          => getSession' = session']_vars

\* C29: a migration that drops and recreates api_chunks leaves every
\* document with status uploaded and chunk_count 0: none keeps ready, or a
\* positive chunk_count, with its chunk rows gone.
C29_RecreateResetsDocuments ==
    [][(RevertToOpenAI \/ FixVectorDimensions) =>
          \A d \in Docs : Exists(d) =>
              /\ status'[d] = "uploaded"
              /\ chunk_count'[d] = 0]_vars

\* C30: whatever migrations have been applied, match_documents accepts
\* query vectors of the dimension of the api_chunks.embedding column.
C30_DimensionsAgree == match_dim = embedding_dim

\* C31: the LLM initialisation tries OpenAI, Anthropic, Google Gemini and
\* Ollama in that order, a provider only after every earlier one failed; it
\* ends with the first provider that initialised, or with None when all
\* failed, and then the summarizer answers.
C31_ProvidersInOrder ==
    LET order == <<"OpenAI", "Anthropic", "Google Gemini", "Ollama">>
        failed(i) == llm_init.outcomes[i] # "returns llm"
    IN llm_init.pc # "idle" =>
        /\ Len(llm_init.tried) <= Len(order)
        /\ \A i \in 1..Len(llm_init.tried) :
              /\ llm_init.tried[i] = order[i]
              /\ \A j \in 1..(i - 1) : failed(j)
        /\ llm_init.pc = "trying" =>
              /\ llm_init.llm = "unset"
              /\ \A i \in 1..Len(llm_init.tried) : failed(i)
        /\ llm_init.pc = "done" =>
              IF \A i \in 1..Len(order) : failed(i)
              THEN /\ llm_init.llm = "None"
                   /\ llm_init.tried = order
                   /\ GenerateAnswer("absent", <<1>>).summarizer_called
                   /\ ~GenerateAnswer("absent", <<1>>).llm_called
              ELSE /\ llm_init.llm = order[Len(llm_init.tried)]
                   /\ ~failed(Len(llm_init.tried))

\* C31 witness: OpenAI raised, Anthropic returned nothing, and the
\* initialisation ended with the Google Gemini LLM without trying Ollama.
C31_Witness ==
    /\ llm_init.pc = "done"
    /\ llm_init.llm = "Google Gemini"
    /\ llm_init.outcomes[1] = "raises"
    /\ llm_init.outcomes[2] = "returns None"
    /\ Len(llm_init.tried) = 3

\* C32: hasValidSession returns true only for a stored session that has not
\* expired; for an expired one it returns false and removes the item; a
\* stored text that does not parse is removed by getSession, so that the
\* next getSession returns null.
C32_ValidOnlyIfStoredAndFresh ==
    LET c == storage_call
        stored == c.before \notin {NoItem, Unparseable} /\ c.before[2] # "null"
        expired == /\ expires_at(c.before[2]) # 0
                   /\ c.now > expires_at(c.before[2]) * 1000
    IN /\ c.op = "hasValidSession" =>
            /\ c.valid => stored /\ ~expired
            /\ stored /\ expired => ~c.valid /\ c.after = NoItem
            /\ stored /\ ~expired => c.valid /\ c.after = c.before
       /\ c.op # "none" /\ c.before = Unparseable =>
            /\ c.after = NoItem
            /\ c.session = "null"
            /\ GetSessionReturns(c.after) = "null"

\* C32 witness: hasValidSession was called one millisecond after the stored
\* session expired, returned false and left nothing stored.
C32_Witness ==
    /\ storage_call.op = "hasValidSession"
    /\ storage_call.before = <<"json", "s2">>
    /\ storage_call.now = MaxSeconds * 1000 + 1
    /\ ~storage_call.valid
    /\ localStorage = NoItem

\* C33: ProcessingStatus renders Retry only where it shows Failed or
\* Processing, and shows Ready without Retry whenever its status is ready or
\* its chunk count is positive; so no re-processing is triggered from it for
\* a document that has chunks.
C33_NoRetryWithChunks ==
    [][/\ (StatusProp(documentStatuses') = "ready" \/ ChunkCountProp(documentStatuses') > 0)
            => /\ rendered' = "Ready"
               /\ ~RetryOffered(StatusProp(documentStatuses'), ChunkCountProp(documentStatuses'))
       /\ RetryOffered(StatusProp(documentStatuses'), ChunkCountProp(documentStatuses'))
            => rendered' \in {"Failed", "Processing..."}
       /\ \A d \in Docs : HandleRetry(d) => ChunkCount(d) = 0]_vars

\* C34: handleSendMessage sends nothing for a blank input or without a
\* selected document; every send appends one user message and then one reply,
\* the answer or the error text; isLoading is true exactly while the request
\* has not settled, and at most one request is in flight.
C34_OneRequestOneReply ==
    [][/\ chat'.in_flight <= 1
       /\ chat'.isLoading <=> chat'.in_flight = 1
       /\ \A i \in 1..Len(chat'.messages) :
             IF i % 2 = 1 THEN chat'.messages[i] = "user"
             ELSE chat'.messages[i] \in {"assistant", "error"}
       /\ chat'.mounted => Len(chat'.messages) + chat'.in_flight <= 2 * chat'.sent
       /\ Len(chat'.messages) % 2 = chat'.in_flight
       /\ chat'.sent > chat.sent =>
             /\ Trim(chat.inputValue) # ""
             /\ chat.selectedDocId # 0
             /\ chat.in_flight = 0
             /\ chat'.messages = Append(chat.messages, "user")]_vars

\* C34 witness: two questions were sent and answered in turn, the second
\* request failed, and nothing is loading.
C34_Witness ==
    /\ chat.messages = <<"user", "assistant", "user", "error">>
    /\ ~chat.isLoading
    /\ chat.in_flight = 0

\* C37: when documents exist and none was passed in as selected, choosing a
\* document on the 'Select a Document' screen leads to the chat view with
\* that document selected, where a question can be sent.
C37_ChoiceLeadsToChat ==
    \A d \in SearchDocs :
        (chat.mounted /\ View(chat) = "select" /\ chat.selectedDocId = d)
            ~> (chat.mounted /\ View(chat) = "chat" /\ chat.selectedDocId = d)

\* C35: handleDelete removes the stored file and the chunks only after the
\* document row was deleted: when the row delete fails, the file and the
\* chunk rows stay and onDocumentDelete is not called; when it succeeds,
\* onDocumentDelete is called also if the file or chunk deletion failed.
C35_DeleteRowFirst ==
    deletion.pc # "idle" =>
        /\ deletion.file = "removed" => deletion.row = "deleted"
        /\ deletion.row # "deleted" =>
              /\ ChunksOf(deletion.doc) = deletion.before
              /\ Exists(deletion.doc)
              /\ ~deletion.callback
              /\ deletion.pc \in {"row", "done"}
        /\ deletion.row = "failed" => deletion.toast = "Failed to delete document"
        /\ (deletion.row = "deleted" /\ deletion.pc = "done") =>
              /\ deletion.callback
              /\ deletion.toast = "Document deleted successfully"
        /\ deletion.callback => deletion.pc = "done"

\* C35 witness: the row was deleted, the removal of the file and the delete
\* of the chunks both failed, and onDocumentDelete was called.
C35_Witness ==
    /\ deletion.pc = "done"
    /\ deletion.row = "deleted"
    /\ deletion.file = "stored"
    /\ deletion.warned = 2
    /\ deletion.callback

\* The positions of files whose extension is allowed, in order.
Supported(files, upto) ==
    SelectSeq([k \in 1..upto |-> k],
              LAMBDA k : fileExtension(files[k]) \in allowedTypes)

\* C36: onDrop posts no file with an unsupported extension and goes on with
\* the next file; the first failed upload ends the batch without
\* onUploadComplete; when onDrop has ended, uploading is false and
\* uploadProgress is 0.
C36_SkipContinueFailStops ==
    LET files == drop.acceptedFiles
        n == Len(files)
    IN  /\ \A k \in 1..Len(drop.posted) :
               fileExtension(files[drop.posted[k]]) \in allowedTypes
        /\ drop.pc = "fetch" =>
               /\ drop.failed = 0
               /\ drop.uploading
               /\ ~drop.callback
               /\ drop.posted # <<>>
               /\ drop.posted = Supported(files, drop.posted[Len(drop.posted)])
        /\ drop.pc = "idle" =>
               /\ ~drop.uploading
               /\ drop.uploadProgress = 0
               /\ drop.failed # 0 =>
                     /\ ~drop.callback
                     /\ drop.posted = Supported(files, drop.failed)
               /\ (drop.failed = 0 /\ drop # NoDrop) =>
                     /\ drop.callback
                     /\ drop.posted = Supported(files, n)

\* C36 witness: an unsupported file was skipped, the file after it was
\* posted and its upload failed, and the supported file after that was never
\* posted.
C36_Witness ==
    /\ drop.pc = "idle"
    /\ Len(drop.acceptedFiles) = 3
    /\ fileExtension(drop.acceptedFiles[1]) \notin allowedTypes
    /\ fileExtension(drop.acceptedFiles[3]) \in allowedTypes
    /\ drop.posted = <<2>>
    /\ drop.failed = 2
    /\ ~drop.callback

====
